---- MODULE Spec2Model ----
(***************************************************************************)
(* nomikai.py: the websearch tool (a DuckDuckGo query rendered as text),   *)
(* build_prompt (five form fields rendered as one instruction) and main    *)
(* (the form handler that validates, builds the prompt and calls the       *)
(* agent).                                                                 *)
(*                                                                         *)
(* Text is a sequence of characters.  An ASCII character is written as     *)
(* itself, any other character as "u" followed by its code point in hex    *)
(* ("u691c" is U+691C), so every literal below is the source literal       *)
(* character by character.                                                 *)
(***************************************************************************)
EXTENDS Naturals, Sequences, FiniteSets

VARIABLES
  query,         \* arguments of the latest websearch invocation
  provider,      \* what DDGS().text did in that invocation
  result,        \* how that invocation ended: a returned string or a raise
  sent,          \* the requests that invocation issued to the provider
  callCount,     \* websearch invocations so far
  requestCount,  \* provider requests so far
  form,          \* the five form fields of the latest script run
  submitted,     \* whether that run was a form submission
  agentDoes,     \* what agent(prompt) did in that run
  ui,            \* elements rendered by that run after the form
  buildCalls,    \* argument tuples build_prompt received in that run
  agentCalls,    \* prompts the agent received in that run
  r1, r2,        \* two planning requests
  p1, p2,        \* their prompts
  built          \* whether p1 and p2 have been computed

searchVars == <<query, provider, result, sent, callCount, requestCount>>
mainVars == <<form, submitted, agentDoes, ui, buildCalls, agentCalls>>
promptVars == <<r1, r2, p1, p2, built>>
vars == <<searchVars, mainVars, promptVars>>

----------------------------------------------------------------------------
(* Bounds of the model. *)

MaxHits == 2

MaxCalls == 2

----------------------------------------------------------------------------
(* Python values and the operations the source applies to them. *)

PyNone == [t |-> "NoneType", s |-> <<>>]

PyStr(s) == [t |-> "str", s |-> s]

\* The marker of a key a dict does not hold.
Missing == [t |-> "missing", s |-> <<>>]

\* bool(v) for a str or None: None and "" are falsy.
Truthy(v) == v.t = "str" /\ v.s # <<>>

\* a or b
PyOr(a, b) == IF Truthy(a) THEN a ELSE b

\* r.get(key, default)
DictGet(r, key, default) == IF r.d[key] = Missing THEN default ELSE r.d[key]

NL ==
  <<
    "\n"
  >>

NoneRepr ==
  <<
    "N", "o", "n", "e"
  >>

\* What an f-string field renders: str(None) is "None", str(s) is s.
Format(v) == IF v.t = "NoneType" THEN NoneRepr ELSE v.s

Digit(d) == <<"0", "1", "2", "3", "4", "5", "6", "7", "8", "9">>[d + 1]

RECURSIVE IntStr(_)
\* str(i) for i >= 0: the decimal digits.
IntStr(i) == IF i < 10 THEN <<Digit(i)>> ELSE IntStr(i \div 10) \o <<Digit(i % 10)>>

RECURSIVE Join(_, _)
\* sep.join(lines)
Join(lines, sep) ==
  IF lines = <<>> THEN <<>>
  ELSE IF Len(lines) = 1 THEN lines[1]
  ELSE lines[1] \o sep \o Join(Tail(lines), sep)

\* The classes of the faults, each with its base class.
BaseOf ==
  [RatelimitException |-> "DDGSException",
   TimeoutException |-> "DDGSException",
   DDGSException |-> "Exception",
   AttributeError |-> "Exception",
   ValueError |-> "Exception",
   Exception |-> "BaseException",
   BaseException |-> "object"]

RECURSIVE IsSubclass(_, _)
IsSubclass(cls, of) ==
  IF cls = of THEN TRUE
  ELSE IF cls = "object" THEN FALSE
  ELSE IsSubclass(BaseOf[cls], of)

----------------------------------------------------------------------------
(* websearch *)

DefaultRegion == <<"j", "p", "-", "j", "a">>

DefaultMaxResults == 5

NoResultsMsg ==
  <<
    "u691c", "u7d22", "u7d50", "u679c", "u304c", "u898b", "u3064", "u304b",
    "u308a", "u307e", "u305b", "u3093", "u3067", "u3057", "u305f", "u3002"
  >>

RateLimitMsg ==
  <<
    "D", "u", "c", "k", "D", "u", "c", "k", "G", "o", " ", "u306e", "u30ec",
    "u30fc", "u30c8", "u5236", "u9650", "u306b", "u9054", "u3057", "u307e",
    "u3057", "u305f", "u3002", "u3057", "u3070", "u3089", "u304f", "u5f85",
    "u3063", "u3066", "u304b", "u3089", "u518d", "u8a66", "u884c", "u3057",
    "u3066", "u304f", "u3060", "u3055", "u3044", "u3002"
  >>

ProviderErrorPrefix ==
  <<
    "D", "u", "c", "k", "D", "u", "c", "k", "G", "o", " ", "u691c", "u7d22",
    "u3067", "u30a8", "u30e9", "u30fc", "u304c", "u767a", "u751f", "u3057",
    "u307e", "u3057", "u305f", ":", " "
  >>

UnknownErrorPrefix ==
  <<
    "u4e0d", "u660e", "u306a", "u30a8", "u30e9", "u30fc", "u304c", "u767a",
    "u751f", "u3057", "u307e", "u3057", "u305f", ":", " "
  >>

IndexSep ==
  <<
    ".", " "
  >>

UrlPrefix ==
  <<
    "U", "R", "L", ":", " "
  >>

SummaryPrefix ==
  <<
    "u6982", "u8981", ":", " "
  >>

RecordSep ==
  <<
    "\n", "\n"
  >>

AttributeErrorDetail ==
  <<
    "'", "N", "o", "n", "e", "T", "y", "p", "e", "'", " ", "o", "b", "j",
    "e", "c", "t", " ", "h", "a", "s", " ", "n", "o", " ", "a", "t", "t",
    "r", "i", "b", "u", "t", "e", " ", "'", "g", "e", "t", "'"
  >>

\* How a block of code ends: by returning value, or by raising exc.
Returned(value) == [raised |-> FALSE, value |-> value, cls |-> "", detail |-> <<>>]

Raised(cls, detail) == [raised |-> TRUE, value |-> <<>>, cls |-> cls, detail |-> detail]

EnumerateStart == 1

\* One pass of the loop body for the hit r numbered i.
FormatHit(i, r) ==
  LET title == DictGet(r, "title", PyStr(<<>>))
      url == PyOr(PyOr(DictGet(r, "href", PyNone), DictGet(r, "link", PyNone)), PyStr(<<>>))
      body == PyOr(PyOr(DictGet(r, "body", PyNone), DictGet(r, "description", PyNone)),
                   PyStr(<<>>))
  IN IntStr(i) \o IndexSep \o Format(title) \o NL \o UrlPrefix \o Format(url)
       \o NL \o SummaryPrefix \o Format(body)

RECURSIVE FormatLoopDedup(_, _, _)
\* FormatLoop with a hit equal to an earlier one skipped (its number is kept).
FormatLoopDedup(results, k, lines) ==
  IF k > Len(results) THEN Returned(lines)
  ELSE IF results[k].t # "dict" THEN Raised("AttributeError", AttributeErrorDetail)
  ELSE IF \E j \in 1..(k - 1) : results[j] = results[k]
       THEN FormatLoopDedup(results, k + 1, lines)
  ELSE FormatLoopDedup(results, k + 1,
                       Append(lines, FormatHit(EnumerateStart + k - 1, results[k])))

RECURSIVE FormatLoop(_, _, _)
\* The for loop from the k-th hit on, lines being what is appended so far.
\* A hit that is no dict has no get: the loop ends in an AttributeError.
FormatLoop(results, k, lines) ==
  IF k > Len(results) THEN Returned(lines)
  ELSE IF results[k].t # "dict" THEN Raised("AttributeError", AttributeErrorDetail)
  ELSE FormatLoop(results, k + 1,
                  Append(lines, FormatHit(EnumerateStart + k - 1, results[k])))

\* TryBody without the check for an empty result list.
TryBodyNoEmptyCheck(prov) ==
  IF prov.kind = "fault" THEN Raised(prov.cls, prov.detail)
  ELSE LET loop == FormatLoop(prov.hits, 1, <<>>)
       IN IF loop.raised THEN loop ELSE Returned(Join(loop.value, RecordSep))

\* The try block: the provider call, the empty check, the loop, the join.
TryBody(prov) ==
  IF prov.kind = "fault" THEN Raised(prov.cls, prov.detail)
  ELSE IF prov.hits = <<>> THEN Returned(NoResultsMsg)
  ELSE LET loop == FormatLoop(prov.hits, 1, <<>>)
       IN IF loop.raised THEN loop ELSE Returned(Join(loop.value, RecordSep))

\* ExceptClauses without the last clause, except Exception.
ExceptClausesProviderOnly ==
  << [cls |-> "RatelimitException", prefix |-> RateLimitMsg, detail |-> FALSE],
     [cls |-> "DDGSException", prefix |-> ProviderErrorPrefix, detail |-> TRUE] >>

\* ExceptClauses with the DDGSException clause ahead of the RatelimitException one.
ExceptClausesGeneralFirst ==
  << [cls |-> "DDGSException", prefix |-> ProviderErrorPrefix, detail |-> TRUE],
     [cls |-> "RatelimitException", prefix |-> RateLimitMsg, detail |-> FALSE],
     [cls |-> "Exception", prefix |-> UnknownErrorPrefix, detail |-> TRUE] >>

\* The except clauses in source order.
ExceptClauses ==
  << [cls |-> "RatelimitException", prefix |-> RateLimitMsg, detail |-> FALSE],
     [cls |-> "DDGSException", prefix |-> ProviderErrorPrefix, detail |-> TRUE],
     [cls |-> "Exception", prefix |-> UnknownErrorPrefix, detail |-> TRUE] >>

RECURSIVE Handle(_, _, _)
\* The first clause, from the k-th on, that matches the raised exception
\* returns its message; when none matches the exception propagates.
Handle(clauses, k, exc) ==
  IF k > Len(clauses) THEN exc
  ELSE IF IsSubclass(exc.cls, clauses[k].cls)
       THEN Returned(clauses[k].prefix \o (IF clauses[k].detail THEN exc.detail ELSE <<>>))
  ELSE Handle(clauses, k + 1, exc)

\* ProviderRequests with the call repeated once after a rate-limit fault.
ProviderRequestsRetry(keywords, region, max_results, prov) ==
  LET request == [keywords |-> keywords, region |-> region, max_results |-> max_results]
  IN IF prov.kind = "fault" /\ prov.cls = "RatelimitException"
     THEN <<request, request>>
     ELSE <<request>>

\* The requests one invocation issues: the single DDGS().text call.
ProviderRequests(keywords, region, max_results, prov) ==
  << [keywords |-> keywords, region |-> region, max_results |-> max_results] >>

\* websearch(keywords, region, max_results) against a provider that does prov.
websearch(keywords, region, max_results, prov) ==
  LET body == TryBody(prov)
  IN IF body.raised THEN Handle(ExceptClauses, 1, body) ELSE body

----------------------------------------------------------------------------
(* build_prompt *)

PromptHead ==
  <<
    "u4ee5", "u4e0b", "u306e", "u6761", "u4ef6", "u3067", "u61c7", "u89aa",
    "u4f1a", "u306e", "u304a", "u5e97", "u3092", "u63d0", "u6848", "u3057",
    "u3066", "u304f", "u3060", "u3055", "u3044", "u3002", "\n", "\n"
  >>

AreaLabel ==
  <<
    "u30fb", "u304a", "u5e97", "u306e", "u30a8", "u30ea", "u30a2", ":", " "
  >>

DatetimeLabel ==
  <<
    "u30fb", "u65e5", "u6642", ":", " "
  >>

GroupLabel ==
  <<
    "u30fb", "u3069", "u3093", "u306a", "u96c6", "u307e", "u308a", "u304b",
    ":", " "
  >>

BudgetLabel ==
  <<
    "u30fb", "1", "u4eba", "u5f53", "u305f", "u308a", "u306e", "u4e88",
    "u7b97", ":", " "
  >>

MoodLabel ==
  <<
    "u30fb", "u304a", "u5e97", "u306e", "u96f0", "u56f2", "u6c17", ":", " "
  >>

PromptTail ==
  <<
    "u6761", "u4ef6", "u306b", "u5408", "u3044", "u305d", "u3046", "u306a",
    "u304a", "u5e97", "u3092", "u3001", "u3067", "u304d", "u308c", "u3070",
    "u8907", "u6570", "u5019", "u88dc", "u6319", "u3052", "u3066", "u304f",
    "u3060", "u3055", "u3044", "u3002", "\n", "u305d", "u308c", "u305e",
    "u308c", "u306b", "u3064", "u3044", "u3066", "u3001", "u60f3", "u5b9a",
    "u3055", "u308c", "u308b", "1", "u4eba", "u3042", "u305f", "u308a",
    "u306e", "u91d1", "u984d", "u306e", "u76ee", "u5b89", "u3068", "u3001",
    "u304a", "u5e97", "u306e", "U", "R", "L", "u3082", "u793a", "u3057",
    "u3066", "u304f", "u3060", "u3055", "u3044", "u3002", "\n", "u5fc5",
    "u8981", "u3067", "u3042", "u308c", "u3070", " ", "w", "e", "b", "s",
    "e", "a", "r", "c", "h", " ", "u30c4", "u30fc", "u30eb", "u3092",
    "u547c", "u3073", "u51fa", "u3057", "u3066", "u3001", "u5b9f", "u5728",
    "u3059", "u308b", "u304a", "u5e97", "u3092", "u691c", "u7d22", "u3057",
    "u3066", "u69cb", "u3044", "u307e", "u305b", "u3093", "u3002"
  >>

UnformattedMood ==
  <<
    "{", "m", "o", "o", "d", "}"
  >>

\* build_prompt with the mood line left a plain literal: {mood} is not replaced.
build_promptUnformattedMood(area, datetime_text, group_desc, budget, mood) ==
  PromptHead
    \o AreaLabel \o area \o NL
    \o DatetimeLabel \o datetime_text \o NL
    \o GroupLabel \o group_desc \o NL
    \o BudgetLabel \o budget \o NL
    \o MoodLabel \o UnformattedMood \o NL \o NL
    \o PromptTail

\* build_prompt with budget and mood interpolated in each other's place.
build_promptSwapped(area, datetime_text, group_desc, budget, mood) ==
  PromptHead
    \o AreaLabel \o area \o NL
    \o DatetimeLabel \o datetime_text \o NL
    \o GroupLabel \o group_desc \o NL
    \o BudgetLabel \o mood \o NL
    \o MoodLabel \o budget \o NL \o NL
    \o PromptTail

build_prompt(area, datetime_text, group_desc, budget, mood) ==
  PromptHead
    \o AreaLabel \o area \o NL
    \o DatetimeLabel \o datetime_text \o NL
    \o GroupLabel \o group_desc \o NL
    \o BudgetLabel \o budget \o NL
    \o MoodLabel \o mood \o NL \o NL
    \o PromptTail

----------------------------------------------------------------------------
(* main *)

ValidationErrorMsg ==
  <<
    "u3059", "u3079", "u3066", "u306e", "u9805", "u76ee", "u3092", "u5165",
    "u529b", "u3057", "u3066", "u304f", "u3060", "u3055", "u3044", "u3002"
  >>

ThinkingHeader ==
  <<
    "#", "#", "#", " ", "u23f3", " ", "A", "I", " ", "u304c", "u30d7",
    "u30e9", "u30f3", "u3092", "u691c", "u8a0e", "u4e2d", "u2026"
  >>

SpinnerText ==
  <<
    "u6761", "u4ef6", "u306b", "u5408", "u3046", "u304a", "u5e97", "u3092",
    "u691c", "u7d22", "u3057", "u3066", "u3044", "u307e", "u3059", "u2026"
  >>

AgentErrorPrefix ==
  <<
    "A", "g", "e", "n", "t", " ", "u5b9f", "u884c", "u4e2d", "u306b",
    "u30a8", "u30e9", "u30fc", "u304c", "u767a", "u751f", "u3057", "u307e",
    "u3057", "u305f", ":", " "
  >>

ResultHeader ==
  <<
    "#", "#", "#", " ", "u2705", " ", "u63d0", "u6848", "u7d50", "u679c"
  >>

\* One element rendered by a streamlit call.
Element(widget, text) == [widget |-> widget, text |-> text]

\* AllFilled with any() in the place of all().
AnyFilled(f) ==
  \/ f.area # <<>>
  \/ f.datetime_text # <<>>
  \/ f.group_desc # <<>>
  \/ f.budget # <<>>
  \/ f.mood # <<>>

\* all([area, datetime_text, group_desc, budget, mood]): every field is a
\* non-empty str.
AllFilled(f) ==
  /\ f.area # <<>>
  /\ f.datetime_text # <<>>
  /\ f.group_desc # <<>>
  /\ f.budget # <<>>
  /\ f.mood # <<>>

\* MainRun with the agent called a second time after it raised, the second
\* call returning an empty response that is then rendered.
MainRunRetry(f, isSubmitted, agent) ==
  IF ~isSubmitted
  THEN [ui |-> <<>>, buildCalls |-> <<>>, agentCalls |-> <<>>, raised |-> FALSE]
  ELSE IF ~AllFilled(f)
  THEN [ui |-> <<Element("error", ValidationErrorMsg)>>,
        buildCalls |-> <<>>, agentCalls |-> <<>>, raised |-> FALSE]
  ELSE LET prompt == build_prompt(f.area, f.datetime_text, f.group_desc, f.budget, f.mood)
           before == <<Element("markdown", ThinkingHeader), Element("spinner", SpinnerText)>>
       IN IF agent.raised
          THEN [ui |-> before \o <<Element("markdown", ResultHeader), Element("write", <<>>)>>,
                buildCalls |-> <<f>>, agentCalls |-> <<prompt, prompt>>, raised |-> FALSE]
          ELSE [ui |-> before \o <<Element("markdown", ResultHeader),
                                   Element("write", agent.value)>>,
                buildCalls |-> <<f>>, agentCalls |-> <<prompt>>, raised |-> FALSE]

\* What one run of main does after the form, f being the field values and
\* agent what agent(prompt) does when it is called: the elements rendered,
\* the calls of build_prompt, the calls of the agent, and whether an
\* exception leaves main.
MainRun(f, isSubmitted, agent) ==
  IF ~isSubmitted
  THEN [ui |-> <<>>, buildCalls |-> <<>>, agentCalls |-> <<>>, raised |-> FALSE]
  ELSE IF ~AllFilled(f)
  THEN [ui |-> <<Element("error", ValidationErrorMsg)>>,
        buildCalls |-> <<>>, agentCalls |-> <<>>, raised |-> FALSE]
  ELSE LET prompt == build_prompt(f.area, f.datetime_text, f.group_desc, f.budget, f.mood)
           before == <<Element("markdown", ThinkingHeader), Element("spinner", SpinnerText)>>
       IN IF agent.raised /\ IsSubclass(agent.cls, "Exception")
          THEN [ui |-> before \o <<Element("error", AgentErrorPrefix \o agent.detail)>>,
                buildCalls |-> <<f>>, agentCalls |-> <<prompt>>, raised |-> FALSE]
          ELSE IF agent.raised
          THEN [ui |-> before, buildCalls |-> <<f>>, agentCalls |-> <<prompt>>,
                raised |-> TRUE]
          ELSE [ui |-> before \o <<Element("markdown", ResultHeader),
                                   Element("write", agent.value)>>,
                buildCalls |-> <<f>>, agentCalls |-> <<prompt>>, raised |-> FALSE]

----------------------------------------------------------------------------
(* The inputs the environment supplies. *)

SeqsUpTo(S, n) == UNION {[1..k -> S] : k \in 0..n}

PyDict(d) == [t |-> "dict", d |-> d]

Hit(title, href, link, body, description) ==
  PyDict([title |-> title, href |-> href, link |-> link, body |-> body,
          description |-> description])

\* Every field present; href and body are the ones rendered.
FullHit ==
  Hit(PyStr(<<"A">>), PyStr(<<"x">>), PyStr(<<"y">>), PyStr(<<"s">>), PyStr(<<"d">>))

\* Only the alternative keys link and description.
AltHit == Hit(PyStr(<<"B">>), Missing, PyStr(<<"y">>), Missing, PyStr(<<"d">>))

\* Empty href and body: the url falls through to link, the summary is empty.
EmptyBodyHit == Hit(PyStr(<<"A">>), PyStr(<<>>), PyStr(<<"y">>), PyStr(<<>>), Missing)

\* The dict {}.
BareHit == Hit(Missing, Missing, Missing, Missing, Missing)

\* Every key present with the value None.
NullHit == Hit(PyNone, PyNone, PyNone, PyNone, PyNone)

\* What the provider may yield as one item: five dicts and one item that is
\* no dict.  No text of a hit holds a line break.
ProviderItems == {FullHit, AltHit, EmptyBodyHit, BareHit, NullHit, PyNone}

\* The faults of the provider call: Exception subclasses, with the text
\* str(e) gives.
FaultClasses == {"RatelimitException", "TimeoutException", "DDGSException", "ValueError"}

FaultDetails == {<<>>, <<"4", "2", "9">>}

NoBehaviour == [kind |-> "none", hits |-> <<>>, cls |-> "", detail |-> <<>>]

\* What DDGS().text can do in one call: return a list of items or fault.
ProviderBehaviours ==
  {[kind |-> "hits", hits |-> h, cls |-> "", detail |-> <<>>] :
     h \in SeqsUpTo(ProviderItems, MaxHits)}
  \cup {[kind |-> "fault", hits |-> <<>>, cls |-> c, detail |-> d] :
          c \in FaultClasses, d \in FaultDetails}

\* The argument tuples of an invocation: keywords alone (the defaults apply),
\* and keywords with an explicit max_results of 1.
Queries ==
  { [keywords |-> <<"k">>, region |-> DefaultRegion, max_results |-> DefaultMaxResults],
    [keywords |-> <<"k", " ", "2">>, region |-> DefaultRegion, max_results |-> 1] }

\* The forms a run may see: each field empty or holding a text of its own
\* (group_desc is a text area and may hold a line break).
Forms ==
  [area : {<<>>, <<"a">>}, datetime_text : {<<>>, <<"d">>},
   group_desc : {<<>>, <<"g", "\n">>}, budget : {<<>>, <<"5">>},
   mood : {<<>>, <<"m">>}]

\* What agent(prompt) may do: return a response whose str() is value, or
\* raise an Exception whose str() is detail.
AgentBehaviours ==
  {Returned(v) : v \in {<<>>, <<"r">>}}
  \cup {Raised("ValueError", d) : d \in {<<>>, <<"e">>}}

\* The texts of a planning request handed to build_prompt.
PromptTexts == {<<>>, <<"a">>, <<"a", "b">>, <<"\n", "u30fb">>}

Requests ==
  [area : PromptTexts, datetime_text : PromptTexts, group_desc : PromptTexts,
   budget : PromptTexts, mood : PromptTexts]

FieldNames == {"area", "datetime_text", "group_desc", "budget", "mood"}

\* The requests that differ from r in at most one field.
OneFieldEdits(r) ==
  {r} \cup {[r EXCEPT ![n] = v] : n \in FieldNames, v \in PromptTexts}

EmptyForm ==
  [area |-> <<>>, datetime_text |-> <<>>, group_desc |-> <<>>, budget |-> <<>>,
   mood |-> <<>>]

----------------------------------------------------------------------------
(* The state machine. *)

SearchStart ==
  /\ query = [keywords |-> <<>>, region |-> DefaultRegion, max_results |-> DefaultMaxResults]
  /\ provider = NoBehaviour
  /\ result = Returned(<<>>)
  /\ sent = <<>>
  /\ callCount = 0
  /\ requestCount = 0

MainStart ==
  /\ form = EmptyForm
  /\ submitted = FALSE
  /\ agentDoes = Returned(<<>>)
  /\ ui = <<>>
  /\ buildCalls = <<>>
  /\ agentCalls = <<>>

PromptStart ==
  /\ r1 = EmptyForm
  /\ r2 = EmptyForm
  /\ p1 = <<>>
  /\ p2 = <<>>
  /\ built = FALSE

Init == SearchStart /\ MainStart /\ PromptStart

\* The agent invokes the tool; the provider does prov.
Websearch(keywords, region, max_results, prov) ==
  /\ callCount < MaxCalls
  /\ query' = [keywords |-> keywords, region |-> region, max_results |-> max_results]
  /\ provider' = prov
  /\ result' = websearch(keywords, region, max_results, prov)
  /\ sent' = ProviderRequests(keywords, region, max_results, prov)
  /\ requestCount' = requestCount + Len(ProviderRequests(keywords, region, max_results, prov))
  /\ callCount' = callCount + 1
  /\ UNCHANGED <<mainVars, promptVars>>

SearchNext ==
  \E q \in Queries, prov \in ProviderBehaviours :
    Websearch(q.keywords, q.region, q.max_results, prov)

SearchSpec == Init /\ [][SearchNext]_vars

\* One run of the script: the form holds f, the button was pressed or not,
\* and the agent, if called, does agent.
RunMain(f, isSubmitted, agent) ==
  /\ form' = f
  /\ submitted' = isSubmitted
  /\ agentDoes' = agent
  /\ ui' = MainRun(f, isSubmitted, agent).ui
  /\ buildCalls' = MainRun(f, isSubmitted, agent).buildCalls
  /\ agentCalls' = MainRun(f, isSubmitted, agent).agentCalls
  /\ UNCHANGED <<searchVars, promptVars>>

MainNext ==
  \E f \in Forms, s \in BOOLEAN, agent \in AgentBehaviours : RunMain(f, s, agent)

MainSpec == Init /\ [][MainNext]_vars

PromptInit ==
  /\ SearchStart
  /\ MainStart
  /\ r1 \in Requests
  /\ r2 \in OneFieldEdits(r1)
  /\ p1 = <<>>
  /\ p2 = <<>>
  /\ built = FALSE

BuildPrompts ==
  /\ ~built
  /\ p1' = build_prompt(r1.area, r1.datetime_text, r1.group_desc, r1.budget, r1.mood)
  /\ p2' = build_prompt(r2.area, r2.datetime_text, r2.group_desc, r2.budget, r2.mood)
  /\ built' = TRUE
  /\ UNCHANGED <<r1, r2, searchVars, mainVars>>

PromptNext == BuildPrompts

PromptSpec == PromptInit /\ [][PromptNext]_vars

Next == SearchNext \/ MainNext \/ PromptNext

Spec == Init /\ [][Next]_vars

----------------------------------------------------------------------------
(* Properties of websearch (checked under SearchSpec). *)

StartsWith(text, prefix) ==
  Len(prefix) <= Len(text) /\ SubSeq(text, 1, Len(prefix)) = prefix

Contains(text, sub) ==
  \E i \in 1..(Len(text) - Len(sub) + 1) : SubSeq(text, i, i + Len(sub) - 1) = sub

RECURSIVE SplitLines(_)
\* The lines of a text: its pieces between line breaks.
SplitLines(text) ==
  IF \A i \in 1..Len(text) : text[i] # "\n" THEN <<text>>
  ELSE LET i == CHOOSE i \in 1..Len(text) :
                  text[i] = "\n" /\ \A j \in 1..(i - 1) : text[j] # "\n"
       IN <<SubSeq(text, 1, i - 1)>> \o SplitLines(SubSeq(text, i + 1, Len(text)))

\* No line of the text is the URL line or the summary line of a record.
NoRecords(text) ==
  \A i \in 1..Len(SplitLines(text)) :
    /\ ~StartsWith(SplitLines(text)[i], UrlPrefix)
    /\ ~StartsWith(SplitLines(text)[i], SummaryPrefix)

Invoked == callCount > 0

GotHits == Invoked /\ provider.kind = "hits"

Faulted == Invoked /\ provider.kind = "fault"

AllDicts(hits) == \A k \in 1..Len(hits) : hits[k].t = "dict"

HasText(v) == v.t = "str" /\ v.s # <<>>

\* C1: whatever the provider does (hits, no hits, a rate-limit fault, another
\* provider fault, any other fault, an item the loop cannot format), the
\* invocation ends by returning one string and never by raising.
C1_NeverRaises == Invoked => result = Returned(result.value)

\* C1 witness: the second of two items is no dict, the loop faults after the
\* first record was formatted, and the unknown-error message is returned.
C1_Witness ==
  /\ GotHits
  /\ Len(provider.hits) = 2
  /\ provider.hits[1].t = "dict"
  /\ provider.hits[2].t # "dict"
  /\ result = Returned(UnknownErrorPrefix \o AttributeErrorDetail)

\* C2: for n >= 1 hits (dicts) the output is n records of three lines,
\* separated by one blank line; the k-th record is numbered k and carries the
\* title, url and summary of the k-th hit of the provider's list, so no hit is
\* truncated, moved, dropped or merged with an equal one.
C2_RecordsInProviderOrder ==
  (GotHits /\ provider.hits # <<>> /\ AllDicts(provider.hits)) =>
    LET hits == provider.hits
        n == Len(hits)
        ls == SplitLines(result.value)
    IN /\ ~result.raised
       /\ Len(ls) = 4 * n - 1
       /\ \A k \in 1..n :
            LET h == hits[k].d
                titleLine == ls[4 * k - 3]
                urlLine == ls[4 * k - 2]
                summaryLine == ls[4 * k - 1]
            IN /\ StartsWith(titleLine, IntStr(k) \o <<".", " ">>)
               /\ StartsWith(urlLine, <<"U", "R", "L", ":", " ">>)
               /\ StartsWith(summaryLine, <<"u6982", "u8981", ":", " ">>)
               /\ h.title.t = "str" => titleLine = IntStr(k) \o <<".", " ">> \o h.title.s
               /\ HasText(h.href) => urlLine = UrlPrefix \o h.href.s
               /\ (~HasText(h.href) /\ HasText(h.link)) => urlLine = UrlPrefix \o h.link.s
               /\ HasText(h.body) => summaryLine = SummaryPrefix \o h.body.s
               /\ (~HasText(h.body) /\ HasText(h.description)) =>
                    summaryLine = SummaryPrefix \o h.description.s
               /\ k < n => ls[4 * k] = <<>>

\* C2 witness: the provider returns the same hit twice although max_results
\* is 1, and both records are in the output.
C2_Witness ==
  /\ GotHits
  /\ query.max_results = 1
  /\ provider.hits = <<FullHit, FullHit>>
  /\ Len(SplitLines(result.value)) = 7
  /\ SplitLines(result.value)[5] = <<"2", ".", " ", "A">>

\* C3: a fault of the provider call yields one message, the most specific
\* first: the fixed rate-limit advisory for a rate-limit fault whatever its
\* detail and the query, the provider-error message with the detail for any
\* other provider fault, the unknown-error message with the detail otherwise;
\* the output holds no record.
C3_FaultMessages ==
  Faulted =>
    /\ ~result.raised
    /\ provider.cls = "RatelimitException" => result.value = RateLimitMsg
    /\ provider.cls \in {"DDGSException", "TimeoutException"} =>
         result.value = ProviderErrorPrefix \o provider.detail
    /\ provider.cls \notin {"RatelimitException", "DDGSException", "TimeoutException"} =>
         result.value = UnknownErrorPrefix \o provider.detail
    /\ NoRecords(result.value)
    /\ ~StartsWith(result.value, <<"1", ".", " ">>)

\* C3 witness: a rate-limit fault that carries a detail, answered by the
\* advisory alone.
C3_Witness ==
  /\ Faulted
  /\ provider.cls = "RatelimitException"
  /\ provider.detail # <<>>
  /\ query.keywords = <<"k", " ", "2">>
  /\ result = Returned(RateLimitMsg)

\* C4: an empty result list yields the fixed no-results string, which holds
\* no record and is none of the three error messages, whatever their detail.
C4_NoResults ==
  (GotHits /\ provider.hits = <<>>) =>
    /\ result = Returned(NoResultsMsg)
    /\ NoRecords(result.value)
    /\ ~StartsWith(result.value, <<"1", ".", " ">>)
    /\ result.value # RateLimitMsg
    /\ ~StartsWith(result.value, ProviderErrorPrefix)
    /\ ~StartsWith(result.value, UnknownErrorPrefix)

\* C4 witness: an invocation the provider answered with the empty list.
C4_Witness ==
  /\ GotHits
  /\ provider.hits = <<>>
  /\ Len(result.value) = 16

\* C9: every invocation issues one request, carrying its own arguments, so
\* the requests issued equal the invocations made: none is repeated after a
\* fault or an empty result, none is saved by reusing an earlier result.
C9_OneRequestPerCall ==
  /\ requestCount = callCount
  /\ Invoked =>
       sent = << [keywords |-> query.keywords, region |-> query.region,
                  max_results |-> query.max_results] >>

\* C9 witness: the second invocation ended in a rate-limit fault and two
\* requests were issued in all.
C9_Witness ==
  /\ callCount = 2
  /\ requestCount = 2
  /\ Faulted
  /\ provider.cls = "RatelimitException"

\* A field the hit does not supply: the key is missing or holds None.
Absent(v) == v = Missing \/ v = PyNone

\* C10: in every record a field the hit does not supply renders as the empty
\* string: no title gives "k. ", neither href nor link gives "URL: ", neither
\* body nor description (absent or empty) gives the bare summary label; the
\* record keeps its three lines.
C10_AbsentFieldsRenderEmpty ==
  (GotHits /\ provider.hits # <<>> /\ AllDicts(provider.hits)) =>
    LET hits == provider.hits
        n == Len(hits)
        ls == SplitLines(result.value)
    IN /\ ~result.raised
       /\ Len(ls) = 4 * n - 1
       /\ \A k \in 1..n :
            LET h == hits[k].d
            IN /\ Absent(h.title) => ls[4 * k - 3] = IntStr(k) \o <<".", " ">>
               /\ (Absent(h.href) /\ Absent(h.link)) =>
                    ls[4 * k - 2] = <<"U", "R", "L", ":", " ">>
               /\ (~HasText(h.body) /\ ~HasText(h.description)) =>
                    ls[4 * k - 1] = <<"u6982", "u8981", ":", " ">>

\* The part of C10 the code keeps: a missing key renders as the empty string,
\* and so does a url or summary of None.
C10_MissingKeysRenderEmpty ==
  (GotHits /\ provider.hits # <<>> /\ AllDicts(provider.hits)) =>
    LET hits == provider.hits
        n == Len(hits)
        ls == SplitLines(result.value)
    IN /\ ~result.raised
       /\ Len(ls) = 4 * n - 1
       /\ \A k \in 1..n :
            LET h == hits[k].d
            IN /\ h.title = Missing => ls[4 * k - 3] = IntStr(k) \o <<".", " ">>
               /\ (Absent(h.href) /\ Absent(h.link)) =>
                    ls[4 * k - 2] = <<"U", "R", "L", ":", " ">>
               /\ (~HasText(h.body) /\ ~HasText(h.description)) =>
                    ls[4 * k - 1] = <<"u6982", "u8981", ":", " ">>

----------------------------------------------------------------------------
(* Properties of main (checked under MainSpec). *)

SomeFieldEmpty(f) == \E n \in FieldNames : f[n] = <<>>

Widgets(elements, widget) == {i \in 1..Len(elements) : elements[i].widget = widget}

\* C5: a submission with an empty field calls neither build_prompt nor the
\* agent and renders nothing but the validation error.
C5_EmptyFieldStopsRun ==
  (submitted /\ SomeFieldEmpty(form)) =>
    /\ buildCalls = <<>>
    /\ agentCalls = <<>>
    /\ ui = <<Element("error", ValidationErrorMsg)>>

\* C5 witness: a submission with four fields filled and mood left empty.
C5_Witness ==
  /\ submitted
  /\ form.area # <<>>
  /\ form.datetime_text # <<>>
  /\ form.group_desc # <<>>
  /\ form.budget # <<>>
  /\ form.mood = <<>>
  /\ ui = <<Element("error", ValidationErrorMsg)>>

\* C6: a submission with five non-empty fields calls the agent once, with the
\* prompt built from the five fields.  If the call raises, the failure
\* message with the detail is the last element rendered, the agent is not
\* called again and no response is rendered; if it returns, the response text
\* is rendered as it is and no error is.
C6_AgentCalledOnce ==
  (submitted /\ ~SomeFieldEmpty(form)) =>
    /\ buildCalls = <<form>>
    /\ agentCalls =
         <<build_prompt(form.area, form.datetime_text, form.group_desc, form.budget,
                        form.mood)>>
    /\ agentDoes.raised =>
         /\ ui[Len(ui)] = Element("error", AgentErrorPrefix \o agentDoes.detail)
         /\ Cardinality(Widgets(ui, "error")) = 1
         /\ Widgets(ui, "write") = {}
         /\ \A i \in 1..Len(ui) : ui[i].text # ResultHeader
    /\ ~agentDoes.raised =>
         /\ ui[Len(ui)] = Element("write", agentDoes.value)
         /\ Cardinality(Widgets(ui, "write")) = 1
         /\ Widgets(ui, "error") = {}

\* C6 witness: a complete submission whose agent call raised with a detail.
C6_Witness ==
  /\ submitted
  /\ ~SomeFieldEmpty(form)
  /\ agentDoes.raised
  /\ agentDoes.detail = <<"e">>
  /\ Len(agentCalls) = 1
  /\ ui[Len(ui)].widget = "error"

----------------------------------------------------------------------------
(* Properties of build_prompt (checked under PromptSpec). *)

DiffersIn(ra, rb) == {n \in FieldNames : ra[n] # rb[n]}

\* C7: equal requests give equal prompts; requests that differ in exactly one
\* field give different prompts, each still holding the text of the other
\* four fields.
C7_Deterministic ==
  built =>
    /\ r1 = r2 => p1 = p2
    /\ Cardinality(DiffersIn(r1, r2)) = 1 =>
         /\ p1 # p2
         /\ \A n \in FieldNames \ DiffersIn(r1, r2) :
              Contains(p1, r1[n]) /\ Contains(p2, r1[n])

\* C7 witness: two built requests of non-empty fields that differ in mood
\* alone.
C7_Witness ==
  /\ built
  /\ ~SomeFieldEmpty(r1)
  /\ ~SomeFieldEmpty(r2)
  /\ DiffersIn(r1, r2) = {"mood"}
  /\ p1 # p2

FieldOrder == <<"area", "datetime_text", "group_desc", "budget", "mood">>

FieldLabels == <<AreaLabel, DatetimeLabel, GroupLabel, BudgetLabel, MoodLabel>>

RECURSIVE SlotLengths(_, _)
\* The length of the first k slots of the prompt of r: label, field, line break.
SlotLengths(r, k) ==
  IF k = 0 THEN 0
  ELSE SlotLengths(r, k - 1) + Len(FieldLabels[k]) + Len(r[FieldOrder[k]]) + 1

\* Where the k-th field of r starts in its prompt.
FieldStart(r, k) == Len(PromptHead) + SlotLengths(r, k - 1) + Len(FieldLabels[k]) + 1

\* C8: for five non-empty fields the prompt holds area, date/time, group
\* description, budget and mood in this order, each once, each right after
\* its label and up to the line break, character for character; the rest of
\* the prompt is the fixed text.
C8_FieldsOnceInOrder ==
  (built /\ ~SomeFieldEmpty(r1)) =>
    /\ StartsWith(p1, PromptHead)
    /\ \A k \in 1..5 :
         LET field == r1[FieldOrder[k]]
             start == FieldStart(r1, k)
         IN /\ SubSeq(p1, start - Len(FieldLabels[k]), start - 1) = FieldLabels[k]
            /\ SubSeq(p1, start, start + Len(field) - 1) = field
            /\ p1[start + Len(field)] = "\n"
    /\ Len(p1) = Len(PromptHead) + SlotLengths(r1, 5) + 1 + Len(PromptTail)
    /\ SubSeq(p1, Len(p1) - Len(PromptTail) + 1, Len(p1)) = PromptTail

\* C8 witness: a built request whose fields differ from each other, one
\* holding a line break and the bullet that opens a label.
C8_Witness ==
  /\ built
  /\ r1.area = <<"a", "b">>
  /\ r1.datetime_text = <<"a">>
  /\ r1.group_desc = <<"\n", "u30fb">>
  /\ r1.budget = <<"a">>
  /\ r1.mood = <<"a", "b">>
  /\ Len(p1) > Len(PromptHead) + Len(PromptTail)

====
